---- MODULE Spec2Model ----
(***************************************************************************)
(* Model of src/main.py: the backup pipeline                               *)
(*   create_tarball -> split_file -> upload_to_r2 per chunk -> cleanup.    *)
(* File names and paths are sequences of tokens (strings); the local       *)
(* filesystem is a function from the names of the files that exist to      *)
(* their contents (sequences of bytes).  Every I/O call may fail: the      *)
(* faults injected in a run are remembered in the history variable faults. *)
(***************************************************************************)
EXTENDS Integers, Sequences, FiniteSets, TLC

\* ------------------------------------------------------------- bounds
MaxDirs == 2          \* longest folders_to_backup list
MaxArchiveLen == 3    \* most bytes create_tarball writes
MaxChunkSize == 3     \* largest chunk_size handed to split_file
MaxFileLen == 5       \* longest file handed to split_file on its own
MaxLines == 2         \* most lines of folders.txt
MaxChunkIndex == 1000 \* largest chunk index whose name is formed on its own

Byte == {0, 1}

Min(a, b) == IF a < b THEN a ELSE b

SeqsUpTo(S, n) == UNION {[1..k -> S] : k \in 0..n}

\* ------------------------------------------------------------ paths
\* os.path.basename: what follows the last "/" (empty after a trailing "/").
LastSlash(p) ==
    LET idx == {i \in 1..Len(p) : p[i] = "/"}
    IN  IF idx = {} THEN 0 ELSE CHOOSE i \in idx : \A j \in idx : j <= i

basename(p) == SubSeq(p, LastSlash(p) + 1, Len(p))

\* The directories a folders.txt line may name in the model; each may exist
\* or not.
PathPool ==
    { <<"/", "etc", "/", "nginx">>,
      <<"/", "srv", "/", "www", "/">> }

\* main, line 105: server_backup_<timestamp>.tar.gz, in the working directory.
backup_filename == <<"server_backup_", "timestamp", ".tar.gz">>

\* ------------------------------------------------------ chunk naming
DigitChar(d) == <<"0", "1", "2", "3", "4", "5", "6", "7", "8", "9">>[d + 1]

RECURSIVE Decimal(_)
Decimal(n) ==
    IF n < 10 THEN <<DigitChar(n)>>
    ELSE Append(Decimal(n \div 10), DigitChar(n % 10))

RECURSIVE ZeroPad(_, _)
ZeroPad(s, width) == IF Len(s) >= width THEN s ELSE ZeroPad(<<"0">> \o s, width)

\* f"{chunk:03d}"
PadWidth == 3
Format03d(n) == ZeroPad(Decimal(n), PadWidth)

\* Mutant: the chunk index is left out of the name.
ChunkName_NoIndex(base_name, chunk) == base_name \o <<".part">>

\* f"{base_name}.part{chunk:03d}"
ChunkName(base_name, chunk) == base_name \o <<".part">> \o Format03d(chunk)

\* ------------------------------------------------------- filesystem
FileExists(f, name) == name \in DOMAIN f

WriteFile(f, name, data) ==
    [n \in DOMAIN f \cup {name} |-> IF n = name THEN data ELSE f[n]]

RemoveFile(f, name) == [n \in DOMAIN f \ {name} |-> f[n]]

\* Mutant: a read returns one byte more than asked for.
ReadBytes_OffByOne(content, pos, n) ==
    SubSeq(content, pos + 1, Min(pos + n + 1, Len(content)))

\* f.read(n) at offset pos of a file with the given content.
ReadBytes(content, pos, n) == SubSeq(content, pos + 1, Min(pos + n, Len(content)))

Prefixes(s) == {SubSeq(s, 1, k) : k \in 0..Len(s)}

RECURSIVE Concat(_, _)
\* The contents of the named files of f, joined in the order of names.
Concat(f, names) ==
    IF names = <<>> THEN <<>>
    ELSE f[Head(names)] \o Concat(f, Tail(names))

\* ------------------------------------------------------ configuration
\* Line 21.
required_env_vars ==
    <<"R2_ACCESS_KEY", "R2_SECRET_KEY", "R2_ENDPOINT", "R2_BUCKET_NAME">>

\* What os.environ.get gives for a variable: None when unset, or its string.
EnvValues == {"None", "", "value"}

\* Mutant: only a variable that is not set at all counts as missing.
Falsy_OnlyNone(v) == v = "None"

\* Line 22: not os.environ.get(var) holds for None and for the empty string.
Falsy(v) == v \in {"None", ""}

\* Line 22: the required variables that are unset or empty, in order.
missing_vars(env) == SelectSeq(required_env_vars, LAMBDA var : Falsy(env[var]))

Whitespace == {" ", "\n"}

RECURSIVE LStrip(_)
LStrip(line) ==
    IF line # <<>> /\ Head(line) \in Whitespace THEN LStrip(Tail(line)) ELSE line

RECURSIVE RStrip(_)
RStrip(line) ==
    IF line # <<>> /\ line[Len(line)] \in Whitespace
    THEN RStrip(SubSeq(line, 1, Len(line) - 1))
    ELSE line

\* str.strip()
Strip(line) == RStrip(LStrip(line))

RECURSIVE ParseFolders(_)
\* Line 31: [line.strip() for line in file if line.strip()]
ParseFolders(lines) ==
    IF lines = <<>> THEN <<>>
    ELSE IF Strip(Head(lines)) = <<>> THEN ParseFolders(Tail(lines))
    ELSE <<Strip(Head(lines))>> \o ParseFolders(Tail(lines))

\* The lines folders.txt may hold in the model: blank ones and directories.
LinePool ==
    { <<"\n">>,
      <<" ", "\n">>,
      <<"/", "etc", "/", "nginx", "\n">>,
      <<" ", "/", "srv", "/", "www", "/">> }

VARIABLES
    environ,                \* os.environ, for the required variables
    folders_txt,            \* folders.txt: whether it exists, and its lines
    exit_status,            \* <<>> while the process runs, <<n>> after sys.exit(n)
    pc,                     \* where the run is
    folders_to_backup,      \* the source list (module level, line 31)
    existing,               \* the paths os.path.exists finds
    chunk_size,             \* split_file's chunk_size, in bytes
    fs,                     \* local files: name -> content
    ct_k,                   \* create_tarball: position in source_dirs
    tar_entries,            \* create_tarball: arcnames added so far
    tar_bytes,              \* what create_tarball wrote when it closed the file
    sf_path,                \* split_file: file_path
    sf_orig,                \* what file_path held when split_file opened it
    sf_pos,                 \* split_file: offset of f
    sf_chunk,               \* split_file: chunk
    sf_data,                \* split_file: chunk_data
    sf_names,               \* split_file: chunk_names
    chunk_names,            \* main: chunk_names
    all_uploads_successful, \* main: "unbound" before line 111
    idx,                    \* main: position of the for loop in chunk_names
    last_upload,            \* main: what upload_to_r2 returned for chunk idx
    attempts,               \* calls of s3.upload_file, in order
    bucket,                 \* remote objects: name -> content
    removed,                \* names given to a successful os.remove, in order
    log,                    \* messages logged, in order
    faults                  \* I/O failures injected so far

vars == <<environ, folders_txt, exit_status, pc, folders_to_backup, existing, chunk_size, fs, ct_k, tar_entries,
          tar_bytes, sf_path, sf_orig, sf_pos, sf_chunk, sf_data, sf_names, chunk_names,
          all_uploads_successful, idx, last_upload, attempts, bucket, removed,
          log, faults>>

ct_vars == <<ct_k, tar_entries, tar_bytes>>
sf_vars == <<sf_path, sf_orig, sf_pos, sf_chunk, sf_data, sf_names>>
main_vars == <<chunk_names, all_uploads_successful, idx, last_upload>>
net_vars == <<attempts, bucket>>
cfg_vars == <<environ, folders_txt, exit_status>>
env_vars == <<cfg_vars, folders_to_backup, existing, chunk_size>>

\* A log entry is <<message, the file or directory it is about>>.
Range(q) == {q[i] : i \in DOMAIN q}

Logged(msg) == \E i \in DOMAIN log : log[i][1] = msg

LoggedAbout(msg, subject) == \E i \in DOMAIN log : log[i] = <<msg, subject>>

\* --------------------------------------------------------------- Init
InitLocals ==
    /\ ct_k = 0
    /\ tar_entries = <<>>
    /\ tar_bytes = <<>>
    /\ sf_orig = <<>>
    /\ sf_pos = 0
    /\ sf_chunk = 0
    /\ sf_data = <<>>
    /\ sf_names = <<>>
    /\ chunk_names = <<>>
    /\ all_uploads_successful = "unbound"
    /\ idx = 0
    /\ last_upload = FALSE
    /\ attempts = <<>>
    /\ bucket = <<>>
    /\ removed = <<>>
    /\ log = <<>>
    /\ faults = {}

\* The module-level code (lines 14-49) has run and found nothing missing.
Configured ==
    /\ environ = [var \in Range(required_env_vars) |-> "value"]
    /\ folders_txt = [exists |-> TRUE, lines |-> folders_to_backup]
    /\ exit_status = <<>>

\* The module-level checks passed: folders_to_backup is non-empty (line 32).
Init ==
    /\ pc = "main"
    /\ folders_to_backup \in SeqsUpTo(PathPool, MaxDirs) \ {<<>>}
    /\ Configured
    /\ existing \in SUBSET {folders_to_backup[i] : i \in DOMAIN folders_to_backup}
    /\ chunk_size \in 1..MaxChunkSize
    /\ fs = <<>>
    /\ sf_path = <<>>
    /\ InitLocals

\* ------------------------------------------------------------- main
\* main, lines 104-108: the try block is entered and create_tarball called.
main_start ==
    /\ pc = "main"
    /\ pc' = "ct_open"
    /\ UNCHANGED <<env_vars, fs, ct_vars, sf_vars, main_vars, net_vars, removed,
                   log, faults>>

\* ----------------------------------------------------- create_tarball
\* Mutant: create_tarball logs the exception and returns normally.
ct_raise_Swallow(fault) ==
    /\ pc' = "ct_return"
    /\ log' = Append(log, <<"Error creating tarball", backup_filename>>)
    /\ faults' = faults \cup {fault}

\* Lines 62-64: any exception is logged and raised again to main.
ct_raise(fault) ==
    /\ pc' = "raised"
    /\ log' = Append(log, <<"Error creating tarball", backup_filename>>)
    /\ faults' = faults \cup {fault}

\* Line 54: tarfile.open(output_filename, "w:gz") creates the file, or fails
\* (with or without having created it).
create_tarball_open ==
    /\ pc = "ct_open"
    /\ \/ /\ fs' = WriteFile(fs, backup_filename, <<>>)
          /\ ct_k' = 1
          /\ pc' = "ct_loop"
          /\ UNCHANGED <<log, faults>>
       \/ /\ fs' \in {fs, WriteFile(fs, backup_filename, <<>>)}
          /\ ct_raise("tarfile.open")
          /\ UNCHANGED ct_k
    /\ UNCHANGED <<env_vars, tar_entries, tar_bytes, sf_vars, main_vars, net_vars,
                   removed>>

\* Lines 56-58: an existing directory is added under its base name.
ct_add_existing(source_dir) ==
    /\ source_dir \in existing
    /\ \/ /\ tar_entries' = Append(tar_entries, basename(source_dir))
          /\ log' = Append(log, <<"Added to tarball", source_dir>>)
          /\ ct_k' = ct_k + 1
          /\ UNCHANGED <<pc, faults>>
       \/ /\ ct_raise("tar.add")
          /\ UNCHANGED <<tar_entries, ct_k>>

\* Mutant: a missing directory is an error that create_tarball raises.
ct_skip_missing_Abort(source_dir) ==
    /\ source_dir \notin existing
    /\ pc' = "raised"
    /\ log' = log \o << <<"Directory not found", source_dir>>,
                        <<"Error creating tarball", backup_filename>> >>
    /\ UNCHANGED <<ct_k, tar_entries, faults>>

\* Lines 59-60: a missing directory is only warned about.
ct_skip_missing(source_dir) ==
    /\ source_dir \notin existing
    /\ log' = Append(log, <<"Directory not found", source_dir>>)
    /\ ct_k' = ct_k + 1
    /\ UNCHANGED <<pc, tar_entries, faults>>

\* Lines 55-60: one iteration of the loop over source_dirs.
create_tarball_dir ==
    /\ pc = "ct_loop"
    /\ ct_k <= Len(folders_to_backup)
    /\ \/ ct_add_existing(folders_to_backup[ct_k])
       \/ ct_skip_missing(folders_to_backup[ct_k])
    /\ UNCHANGED <<env_vars, fs, tar_bytes, sf_vars, main_vars, net_vars, removed>>

\* Mutant: an archive to which nothing was added is an empty file.
ArchiveContents_EmptyWhenNoEntries ==
    IF tar_entries = <<>> THEN {<<>>} ELSE SeqsUpTo(Byte, MaxArchiveLen) \ {<<>>}

\* The gzip stream of a tar file is never empty, whatever was added.
ArchiveContents == SeqsUpTo(Byte, MaxArchiveLen) \ {<<>>}

\* Lines 54 and 61: leaving the with block closes the archive, which writes
\* the compressed stream out; then create_tarball returns to main.
create_tarball_close ==
    /\ pc = "ct_loop"
    /\ ct_k > Len(folders_to_backup)
    /\ \/ /\ \E content \in ArchiveContents :
                /\ fs' = WriteFile(fs, backup_filename, content)
                /\ tar_bytes' = content
          /\ log' = Append(log, <<"Tarball created", backup_filename>>)
          /\ pc' = "ct_return"
          /\ UNCHANGED faults
       \/ /\ ct_raise("tar.close")
          /\ UNCHANGED <<fs, tar_bytes>>
    /\ UNCHANGED <<env_vars, ct_k, tar_entries, sf_vars, main_vars, net_vars,
                   removed>>

\* main, line 109: split_file(backup_filename) with the default chunk_size.
main_call_split ==
    /\ pc = "ct_return"
    /\ sf_path' = backup_filename
    /\ pc' = "sf_open"
    /\ UNCHANGED <<env_vars, fs, ct_vars, sf_orig, sf_pos, sf_chunk, sf_data,
                   sf_names, main_vars, net_vars, removed, log, faults>>

\* --------------------------------------------------------- split_file
\* Lines 99-101: any exception is logged and raised again to the caller.
sf_raise(fault) ==
    /\ pc' = "raised"
    /\ log' = Append(log, <<"Error splitting file", sf_path>>)
    /\ faults' = faults \cup {fault}

\* Lines 83-87: base_name, chunk_names = [], open(file_path, 'rb'), chunk = 0.
split_file_open ==
    /\ pc = "sf_open"
    /\ \/ /\ FileExists(fs, sf_path)
          /\ sf_orig' = fs[sf_path]
          /\ sf_pos' = 0
          /\ sf_chunk' = 0
          /\ sf_names' = <<>>
          /\ pc' = "sf_read"
          /\ UNCHANGED <<log, faults>>
       \/ /\ sf_raise("open source")
          /\ UNCHANGED <<sf_orig, sf_pos, sf_chunk, sf_names>>
    /\ UNCHANGED <<env_vars, fs, ct_vars, sf_path, sf_data, main_vars, net_vars,
                   removed>>

\* Line 90: the loop ends on a read that returns nothing.
EndOfFile(chunk_data) == chunk_data = <<>>

\* Lines 89-91 and 98: chunk_data = f.read(int(chunk_size)); an empty read ends
\* the loop and split_file returns chunk_names.
split_file_read ==
    /\ pc = "sf_read"
    /\ \/ LET chunk_data == ReadBytes(fs[sf_path], sf_pos, chunk_size)
          IN  /\ sf_data' = chunk_data
              /\ sf_pos' = sf_pos + Len(chunk_data)
              /\ pc' = IF EndOfFile(chunk_data) THEN "sf_return" ELSE "sf_write"
              /\ UNCHANGED <<log, faults>>
       \/ /\ sf_raise("read source")
          /\ UNCHANGED <<sf_data, sf_pos>>
    /\ UNCHANGED <<env_vars, fs, ct_vars, sf_path, sf_orig, sf_chunk, sf_names,
                   main_vars, net_vars, removed>>

\* Lines 92-97: the chunk file is written and its name recorded; a failing
\* open or write leaves no file or a part of the chunk behind.
split_file_write ==
    /\ pc = "sf_write"
    /\ LET chunk_name == ChunkName(basename(sf_path), sf_chunk)
       IN  \/ /\ fs' = WriteFile(fs, chunk_name, sf_data)
              /\ log' = Append(log, <<"Created chunk", chunk_name>>)
              /\ sf_names' = Append(sf_names, chunk_name)
              /\ sf_chunk' = sf_chunk + 1
              /\ pc' = "sf_read"
              /\ UNCHANGED faults
           \/ /\ \/ fs' = fs
                 \/ \E part \in Prefixes(sf_data) \ {sf_data} :
                        fs' = WriteFile(fs, chunk_name, part)
              /\ sf_raise("write chunk")
              /\ UNCHANGED <<sf_names, sf_chunk>>
    /\ UNCHANGED <<env_vars, ct_vars, sf_path, sf_orig, sf_pos, sf_data,
                   main_vars, net_vars, removed>>

\* ------------------------------------------------------- upload_to_r2
\* What s3.upload_file may do: complete, raise ClientError, raise another error.
ClientOutcomes == {"completed", "ClientError", "Exception"}

\* Mutant: only ClientError is caught.
upload_to_r2_OnlyClientError(outcome) ==
    [ret |-> outcome = "completed", raised |-> outcome = "Exception"]

\* Lines 71-79: True after upload_file completed, False after any exception;
\* raised tells whether an exception leaves upload_to_r2.
upload_to_r2(outcome) ==
    [ret |-> outcome = "completed", raised |-> FALSE]

\* ------------------------------------------------- main, after the split
\* Lines 109-112: chunk_names is bound to what split_file returned, the flag
\* starts True and the loop starts at the first chunk.
main_split_returned ==
    /\ pc = "sf_return"
    /\ chunk_names' = sf_names
    /\ all_uploads_successful' = "True"
    /\ idx' = 1
    /\ pc' = "loop"
    /\ UNCHANGED <<env_vars, fs, ct_vars, sf_vars, last_upload, net_vars, removed,
                   log, faults>>

\* Line 113: upload_to_r2(chunk_name, bucket_name), one call of s3.upload_file.
main_upload ==
    /\ pc = "loop"
    /\ idx <= Len(chunk_names)
    /\ \E outcome \in ClientOutcomes :
        LET chunk_name == chunk_names[idx]
            r == upload_to_r2(outcome)
        IN  /\ attempts' = Append(attempts, [name |-> chunk_name,
                                              outcome |-> outcome,
                                              ret |-> r.ret,
                                              raised |-> r.raised])
            /\ bucket' = IF outcome = "completed"
                         THEN WriteFile(bucket, basename(chunk_name), fs[chunk_name])
                         ELSE bucket
            /\ log' = Append(log, <<CASE outcome = "completed" -> "File uploaded successfully"
                                      [] outcome = "ClientError" -> "ClientError in upload_to_r2"
                                      [] OTHER -> "Unexpected error in upload_to_r2",
                                    chunk_name>>)
            /\ last_upload' = r.ret
            /\ pc' = IF r.raised THEN "raised" ELSE "uploaded"
    /\ UNCHANGED <<env_vars, fs, ct_vars, sf_vars, chunk_names,
                   all_uploads_successful, idx, removed, faults>>

\* Mutant: the flag is the result of the latest upload.
FlagAfter_Latest(flag, result) == IF result THEN "True" ELSE "False"

\* Line 119: the flag after a chunk's upload returned result.
FlagAfter(flag, result) == IF result THEN flag ELSE "False"

\* Mutant: a chunk whose upload failed is tried again.
NextAfterFailure_Retry(i, n) == i

\* Mutant: a failed upload ends the loop.
NextAfterFailure_Break(i, n) == n + 1

\* Where the for loop goes after a chunk whose upload failed (lines 117-119).
NextAfterFailure(i, n) == i + 1

\* Mutant: an uploaded chunk is kept on the local disk.
main_chunk_uploaded_KeepChunk ==
    /\ pc = "uploaded"
    /\ last_upload
    /\ log' = Append(log, <<"Chunk uploaded successfully", chunk_names[idx]>>)
    /\ idx' = idx + 1
    /\ pc' = "loop"
    /\ UNCHANGED <<env_vars, fs, ct_vars, sf_vars, chunk_names,
                   all_uploads_successful, last_upload, net_vars, removed, faults>>

\* Mutant: an error of os.remove is ignored and the loop goes on.
main_chunk_uploaded_IgnoreError ==
    /\ pc = "uploaded"
    /\ last_upload
    /\ LET chunk_name == chunk_names[idx]
       IN  \/ /\ fs' = RemoveFile(fs, chunk_name)
              /\ removed' = Append(removed, chunk_name)
              /\ UNCHANGED faults
           \/ /\ faults' = faults \cup {"remove chunk"}
              /\ UNCHANGED <<fs, removed>>
    /\ log' = Append(log, <<"Chunk uploaded successfully", chunk_names[idx]>>)
    /\ idx' = idx + 1
    /\ pc' = "loop"
    /\ UNCHANGED <<env_vars, ct_vars, sf_vars, chunk_names,
                   all_uploads_successful, last_upload, net_vars>>

\* Lines 114-116: the uploaded chunk is removed locally; a failing os.remove
\* raises out of the loop.
main_chunk_uploaded ==
    /\ pc = "uploaded"
    /\ last_upload
    /\ LET chunk_name == chunk_names[idx]
       IN  \/ /\ fs' = RemoveFile(fs, chunk_name)
              /\ removed' = Append(removed, chunk_name)
              /\ log' = log \o << <<"Chunk uploaded successfully", chunk_name>>,
                                  <<"Local chunk removed", chunk_name>> >>
              /\ idx' = idx + 1
              /\ pc' = "loop"
              /\ UNCHANGED faults
           \/ /\ log' = Append(log, <<"Chunk uploaded successfully", chunk_name>>)
              /\ faults' = faults \cup {"remove chunk"}
              /\ pc' = "raised"
              /\ UNCHANGED <<fs, removed, idx>>
    /\ all_uploads_successful' = FlagAfter(all_uploads_successful, TRUE)
    /\ UNCHANGED <<env_vars, ct_vars, sf_vars, chunk_names, last_upload, net_vars>>

\* Mutant: a failed upload is raised as an exception.
main_chunk_failed_Raise ==
    /\ pc = "uploaded"
    /\ ~last_upload
    /\ log' = Append(log, <<"Failed to upload chunk", chunk_names[idx]>>)
    /\ all_uploads_successful' = "False"
    /\ pc' = "raised"
    /\ UNCHANGED <<env_vars, fs, ct_vars, sf_vars, chunk_names, idx, last_upload,
                   net_vars, removed, faults>>

\* Lines 117-119: the failure is logged, the flag cleared, the loop goes on.
main_chunk_failed ==
    /\ pc = "uploaded"
    /\ ~last_upload
    /\ log' = Append(log, <<"Failed to upload chunk", chunk_names[idx]>>)
    /\ all_uploads_successful' = FlagAfter(all_uploads_successful, FALSE)
    /\ idx' = NextAfterFailure(idx, Len(chunk_names))
    /\ pc' = "loop"
    /\ UNCHANGED <<env_vars, fs, ct_vars, sf_vars, chunk_names, last_upload,
                   net_vars, removed, faults>>

\* Mutant: a directory that was not found makes the job report failure.
FinalStatus_FailOnMissing(flag) ==
    IF flag = "True" /\ ~Logged("Directory not found")
    THEN "Backup completed successfully"
    ELSE "Backup failed"

\* Lines 121-124: the final status for a value of the flag.
FinalStatus(flag) ==
    IF flag = "True" THEN "Backup completed successfully" ELSE "Backup failed"

\* Lines 121-124: the final status is logged, once the loop is over.
main_report ==
    /\ pc = "loop"
    /\ idx > Len(chunk_names)
    /\ log' = Append(log, <<FinalStatus(all_uploads_successful), backup_filename>>)
    /\ pc' = "finally"
    /\ UNCHANGED <<env_vars, fs, ct_vars, sf_vars, main_vars, net_vars, removed,
                   faults>>

\* Mutant: the exception handler removes the archive as well.
main_except_Cleanup ==
    /\ pc = "raised"
    /\ log' = Append(log, <<"An error occurred during the backup process",
                            backup_filename>>)
    /\ fs' = RemoveFile(fs, backup_filename)
    /\ removed' = IF FileExists(fs, backup_filename)
                  THEN Append(removed, backup_filename)
                  ELSE removed
    /\ pc' = "finally"
    /\ UNCHANGED <<env_vars, ct_vars, sf_vars, main_vars, net_vars, faults>>

\* Lines 126-127: an exception raised inside the try block is logged.
main_except ==
    /\ pc = "raised"
    /\ log' = Append(log, <<"An error occurred during the backup process",
                            backup_filename>>)
    /\ pc' = "finally"
    /\ UNCHANGED <<env_vars, fs, ct_vars, sf_vars, main_vars, net_vars, removed,
                   faults>>

\* Mutant: the archive is removed only when no exception was caught.
ArchiveLeft_OnlyOnSuccess(f) ==
    /\ FileExists(f, backup_filename)
    /\ ~Logged("An error occurred during the backup process")

\* Line 129: whether the finally block has an archive to remove.
ArchiveLeft(f) == FileExists(f, backup_filename)

\* Lines 128-131: the archive is removed if it exists; main then returns, or
\* the exception of a failing os.remove leaves main.
main_finally ==
    /\ pc = "finally"
    /\ IF ArchiveLeft(fs)
       THEN \/ /\ fs' = RemoveFile(fs, backup_filename)
               /\ removed' = Append(removed, backup_filename)
               /\ log' = Append(log, <<"Local tarball removed", backup_filename>>)
               /\ pc' = "done"
               /\ UNCHANGED faults
            \/ /\ faults' = faults \cup {"remove archive"}
               /\ pc' = "crashed"
               /\ UNCHANGED <<fs, removed, log>>
       ELSE /\ pc' = "done"
            /\ UNCHANGED <<fs, removed, log, faults>>
    /\ UNCHANGED <<env_vars, ct_vars, sf_vars, main_vars, net_vars>>

\* ------------------------------------------------------ specifications
Next ==
    \/ main_start
    \/ create_tarball_open
    \/ create_tarball_dir
    \/ create_tarball_close
    \/ main_call_split
    \/ split_file_open
    \/ split_file_read
    \/ split_file_write
    \/ main_split_returned
    \/ main_upload
    \/ main_chunk_uploaded
    \/ main_chunk_failed
    \/ main_report
    \/ main_except
    \/ main_finally

\* One run of main().
Spec == Init /\ [][Next]_vars

\* split_file called on its own: any file, empty ones included, and any
\* positive chunk size.
source_file == <<"data", ".bin">>

InitSplit ==
    /\ pc = "sf_open"
    /\ folders_to_backup = <<>>
    /\ Configured
    /\ existing = {}
    /\ chunk_size \in 1..MaxChunkSize
    /\ \E content \in SeqsUpTo(Byte, MaxFileLen) :
           fs = WriteFile(<<>>, source_file, content)
    /\ sf_path = source_file
    /\ InitLocals

NextSplit ==
    \/ split_file_open
    \/ split_file_read
    \/ split_file_write

SplitSpec == InitSplit /\ [][NextSplit]_vars

\* ------------------------------------------------------- module level
\* sys.exit(1) after an error was logged (lines 24-25, 33-34, 36-37, 48-49).
module_exit(msg) ==
    /\ log' = Append(log, <<msg, <<>>>>)
    /\ exit_status' = <<1>>
    /\ pc' = "exited"

\* Lines 15-25: the required environment variables are read and checked.
module_check_env ==
    /\ pc = "module"
    /\ IF missing_vars(environ) # <<>>
       THEN module_exit("Missing required environment variables")
       ELSE /\ pc' = "folders"
            /\ UNCHANGED <<log, exit_status>>
    /\ UNCHANGED <<environ, folders_txt, folders_to_backup, existing, chunk_size,
                   fs, ct_vars, sf_vars, main_vars, net_vars, removed, faults>>

\* Lines 28-37: folders.txt is read; it must exist and name a folder.
module_read_folders ==
    /\ pc = "folders"
    /\ IF ~folders_txt.exists
       THEN /\ module_exit("folders.txt not found")
            /\ UNCHANGED folders_to_backup
       ELSE /\ folders_to_backup' = ParseFolders(folders_txt.lines)
            /\ IF folders_to_backup' = <<>>
               THEN module_exit("No folders specified in folders.txt")
               ELSE /\ pc' = "client"
                    /\ UNCHANGED <<log, exit_status>>
    /\ UNCHANGED <<environ, folders_txt, existing, chunk_size, fs, ct_vars,
                   sf_vars, main_vars, net_vars, removed, faults>>

\* Lines 40-49 and 133-134: boto3.client is built, or raises and the process
\* exits; then main() is called.
module_init_client ==
    /\ pc = "client"
    /\ \/ /\ pc' = "main"
          /\ UNCHANGED <<log, exit_status, faults>>
       \/ /\ module_exit("Failed to initialize R2 client")
          /\ faults' = faults \cup {"boto3.client"}
    /\ UNCHANGED <<environ, folders_txt, folders_to_backup, existing, chunk_size,
                   fs, ct_vars, sf_vars, main_vars, net_vars, removed>>

\* The process from its start: any environment, any folders.txt.
InitStart ==
    /\ pc = "module"
    /\ environ \in [Range(required_env_vars) -> EnvValues]
    /\ folders_txt \in
          {[exists |-> FALSE, lines |-> <<>>]} \cup
          {[exists |-> TRUE, lines |-> l] : l \in SeqsUpTo(LinePool, MaxLines)}
    /\ exit_status = <<>>
    /\ folders_to_backup = <<>>
    /\ existing \in SUBSET Range(ParseFolders(folders_txt.lines))
    /\ chunk_size = MaxChunkSize
    /\ fs = <<>>
    /\ sf_path = <<>>
    /\ InitLocals

NextStart ==
    \/ module_check_env
    \/ module_read_folders
    \/ module_init_client
    \/ Next

StartSpec == InitStart /\ [][NextStart]_vars

\* ----------------------------------------------------- chunk names alone
\* Lines 92 and 97 on their own: the names split_file gives to the chunk of
\* some index and to the next one.
InitNames ==
    /\ pc = "naming"
    /\ folders_to_backup = <<>>
    /\ Configured
    /\ existing = {}
    /\ chunk_size = 1
    /\ fs = <<>>
    /\ sf_path = backup_filename
    /\ InitLocals

split_file_names ==
    /\ pc = "naming"
    /\ \E chunk \in 0..MaxChunkIndex :
          /\ sf_chunk' = chunk + 1
          /\ sf_names' = <<ChunkName(basename(sf_path), chunk),
                           ChunkName(basename(sf_path), chunk + 1)>>
    /\ pc' = "named"
    /\ UNCHANGED <<env_vars, fs, ct_vars, sf_path, sf_orig, sf_pos, sf_data,
                   main_vars, net_vars, removed, log, faults>>

NextNames == split_file_names

NameSpec == InitNames /\ [][NextNames]_vars

\* ============================================================ claims
Returned == pc = "done"

LoopLeft == pc \in {"finally", "done", "crashed"}

\* The uploads that failed and whose failure main has already handled.
HandledFailures ==
    {k \in DOMAIN attempts :
        /\ ~attempts[k].ret
        /\ (k < Len(attempts) \/ pc # "uploaded")}

SomeUploadFailed == \E k \in DOMAIN attempts : ~attempts[k].ret

AllChunksAttempted ==
    /\ Len(attempts) = Len(chunk_names)
    /\ \A k \in DOMAIN attempts : attempts[k].name = chunk_names[k]

ReportedSuccess == Logged("Backup completed successfully")

ReportedFailure == Logged("Backup failed")

\* C1: once main() has returned, whatever failed on the way (create_tarball
\* raising, split_file raising, any chunk uploads failing), the archive file
\* does not exist on local storage.
C1_ArchiveGoneOnReturn == Returned => ~FileExists(fs, backup_filename)

\* C1 witness: main returned after split_file raised while writing a chunk,
\* and the archive, which existed, was removed.
C1_Witness ==
    /\ Returned
    /\ "write chunk" \in faults
    /\ backup_filename \in Range(removed)

\* C2 as stated: when a chunk's upload failed, the aggregate result is failure
\* and every chunk that split_file returned has been attempted by the time
\* main() returns.
C2_Original ==
    (Returned /\ SomeUploadFailed) =>
        /\ all_uploads_successful = "False"
        /\ AllChunksAttempted

\* C2 amended: when a chunk's upload failed, the flag is false and the job is
\* never reported successful; every other chunk is still attempted and the
\* failure reported, unless removing an uploaded chunk raised, which abandons
\* the loop.
C2_FailureDoesNotStopUploads ==
    (LoopLeft /\ SomeUploadFailed) =>
        /\ all_uploads_successful = "False"
        /\ ~ReportedSuccess
        /\ ("remove chunk" \notin faults => AllChunksAttempted /\ ReportedFailure)
        /\ ("remove chunk" \in faults =>
                /\ ~ReportedFailure
                /\ attempts[Len(attempts)].ret
                /\ FileExists(fs, attempts[Len(attempts)].name))

\* C2 witness: the first chunk's upload failed, the chunks after it were
\* still attempted, and main returned.
C2_Witness ==
    /\ Returned
    /\ Len(attempts) >= 3
    /\ ~attempts[1].ret
    /\ AllChunksAttempted

\* C3: success is reported only if create_tarball and split_file completed and
\* the upload of every chunk split_file returned succeeded; once a chunk's
\* upload has failed the flag is false in every later state.
C3_SuccessOnlyIfAllSucceeded ==
    /\ ReportedSuccess =>
          /\ Logged("Tarball created")
          /\ faults \cap {"open source", "read source", "write chunk"} = {}
          /\ chunk_names = sf_names
          /\ Concat(bucket, chunk_names) = tar_bytes
          /\ AllChunksAttempted
          /\ \A k \in DOMAIN attempts :
                attempts[k].ret /\ attempts[k].outcome = "completed"
          /\ all_uploads_successful = "True"
    /\ HandledFailures # {} => all_uploads_successful = "False"

\* C3 witness: success was reported after several chunks were uploaded.
C3_Witness ==
    /\ Returned
    /\ ReportedSuccess
    /\ Len(attempts) >= 2

SomeDirMissing == \E i \in DOMAIN folders_to_backup : folders_to_backup[i] \notin existing

SomeDirExisting == \E i \in DOMAIN folders_to_backup : folders_to_backup[i] \in existing

ExceptionCaught == Logged("An error occurred during the backup process")

\* C4 as stated: with a directory of the source list missing, the job that
\* returns is not reported successful.
C4_Original == (Returned /\ SomeDirMissing) => ~ReportedSuccess

\* C4 amended: a missing directory of the source list is skipped with a
\* warning and raises nothing, and it does not by itself make the job fail:
\* failure is reported only when a chunk upload failed.
C4_MissingDirAloneDoesNotFail ==
    SomeDirMissing =>
        /\ ReportedFailure => SomeUploadFailed
        /\ \A i \in 1..(ct_k - 1) :
              folders_to_backup[i] \notin existing =>
                  LoggedAbout("Directory not found", folders_to_backup[i])
        /\ (pc = "raised" \/ ExceptionCaught) => faults # {}
        /\ pc = "crashed" => "remove archive" \in faults

\* C4 witness: a run with a missing directory returned with a failed report.
C4_Witness ==
    /\ Returned
    /\ SomeDirMissing
    /\ Logged("Directory not found")
    /\ ReportedFailure

\* C5: with existing and missing directories in the source list and no I/O
\* error, the run archives, splits and attempts every chunk, reports success
\* exactly when every upload succeeded, and a chunk size above the archive
\* size gives exactly one chunk and one upload attempt.
C5_MissingDirDoesNotAbort ==
    (Returned /\ faults = {} /\ SomeDirMissing /\ SomeDirExisting) =>
        /\ Logged("Tarball created")
        /\ tar_entries # <<>>
        /\ chunk_names = sf_names
        /\ Len(chunk_names) >= 1
        /\ AllChunksAttempted
        /\ ~SomeUploadFailed <=> ReportedSuccess
        /\ chunk_size > Len(tar_bytes) =>
              Len(chunk_names) = 1 /\ Len(attempts) = 1

\* C5 witness: one existing and one missing directory, a chunk size above the
\* archive size, and the job reported successful.
C5_Witness ==
    /\ Returned
    /\ SomeDirMissing
    /\ SomeDirExisting
    /\ chunk_size > Len(tar_bytes)
    /\ Len(attempts) = 1
    /\ ReportedSuccess

ChunksOf(names) == Range(names) \ {backup_filename}

\* C6: a chunk is removed only after its own upload returned success, and it
\* is gone before the next upload begins; a chunk whose upload failed is never
\* removed and exists when main() returns; after full success no file is left.
C6_ChunkRemovedOnlyAfterItsUpload ==
    /\ \A n \in ChunksOf(removed) :
          \E k \in DOMAIN attempts : attempts[k].name = n /\ attempts[k].ret
    /\ \A k \in 1..(Len(attempts) - 1) :
          attempts[k].ret => ~FileExists(fs, attempts[k].name)
    /\ \A k \in DOMAIN attempts :
          ~attempts[k].ret =>
              /\ FileExists(fs, attempts[k].name)
              /\ attempts[k].name \notin Range(removed)
    /\ (Returned /\ ReportedSuccess) => DOMAIN fs = {}

\* C6 witness: main returned after one chunk failed (and is still there) and
\* a later one was uploaded and removed.
C6_Witness ==
    /\ Returned
    /\ Len(attempts) >= 2
    /\ ~attempts[1].ret
    /\ FileExists(fs, attempts[1].name)
    /\ attempts[2].ret
    /\ attempts[2].name \in Range(removed)

\* The names split_file has given to chunk files, the one being written
\* when it failed included.
SplitCreated ==
    {ChunkName(basename(sf_path), c) : c \in 0..sf_chunk} \cap DOMAIN fs

\* C7: when split_file failed after writing chunk files, none of the chunk
\* files it created exists once main() has returned.
C7_FailedSplitLeavesNoChunks ==
    (Returned /\ Logged("Error splitting file") /\ sf_names # <<>>) =>
        SplitCreated = {}

\* split_file got as far as reading the file it opened.
SplitOpened ==
    \/ pc \in {"sf_read", "sf_write", "sf_return"}
    \/ pc = "raised" /\ faults \cap {"read source", "write chunk"} # {}

\* C8: the chunk files split_file returns, joined in index order, are the
\* file byte for byte, and split_file leaves the file as it found it.
C8_RoundTrip ==
    /\ SplitOpened => FileExists(fs, sf_path) /\ fs[sf_path] = sf_orig
    /\ pc = "sf_return" =>
          /\ \A k \in DOMAIN sf_names : FileExists(fs, sf_names[k])
          /\ Concat(fs, sf_names) = sf_orig

\* C8 witness: split_file returned several chunks, the last one short.
C8_Witness ==
    /\ pc = "sf_return"
    /\ Len(sf_names) >= 2
    /\ Len(sf_orig) % chunk_size # 0

ChunkLen(k) == Len(fs[sf_names[k]])

ChunkSizesBounded ==
    /\ \A k \in DOMAIN sf_names : 1 <= ChunkLen(k) /\ ChunkLen(k) <= chunk_size
    /\ \A k \in 1..(Len(sf_names) - 1) : ChunkLen(k) = chunk_size
    /\ Len(sf_orig) % chunk_size = 0 => Len(sf_names) * chunk_size = Len(sf_orig)

\* C9 as stated: every chunk is non-empty and at most N bytes, all but the
\* last exactly N; N >= S gives exactly one chunk, also for S = 0; N dividing
\* S gives S/N chunks.
C9_Original ==
    pc = "sf_return" =>
        /\ ChunkSizesBounded
        /\ chunk_size >= Len(sf_orig) => Len(sf_names) = 1

\* C9 amended: every chunk is non-empty and at most N bytes, all but the last
\* exactly N; for a non-empty file N >= S gives exactly one chunk, an empty
\* file gives no chunk; N dividing S gives S/N chunks.
C9_ChunkSizes ==
    pc = "sf_return" =>
        /\ ChunkSizesBounded
        /\ (Len(sf_orig) > 0 /\ chunk_size >= Len(sf_orig)) => Len(sf_names) = 1
        /\ Len(sf_orig) = 0 => Len(sf_names) = 0

\* C9 witness: the chunk size divides the file size and there are several
\* chunks.
C9_Witness ==
    /\ pc = "sf_return"
    /\ Len(sf_orig) % chunk_size = 0
    /\ Len(sf_names) >= 2

\* C10: upload_to_r2 returns True exactly when s3.upload_file completed; for
\* every error the client raises it returns False, and it raises nothing.
C10_UploadReturnsNeverRaises ==
    /\ \A k \in DOMAIN attempts :
          /\ attempts[k].ret <=> attempts[k].outcome = "completed"
          /\ ~attempts[k].raised
    /\ pc = "uploaded" => last_upload = attempts[Len(attempts)].ret
    /\ (pc = "raised" /\ attempts # <<>>) => "remove chunk" \in faults

\* C10 witness: the client raised an unexpected error, then a ClientError,
\* then completed, one chunk each.
C10_Witness ==
    /\ Len(attempts) = 3
    /\ attempts[1].outcome = "Exception"
    /\ attempts[2].outcome = "ClientError"
    /\ attempts[3].outcome = "completed"
    /\ ~attempts[1].ret
    /\ ~attempts[2].ret
    /\ attempts[3].ret

\* A required variable is unset or empty, or folders.txt is missing or has
\* no non-blank line.
BadConfiguration ==
    \/ \E var \in Range(required_env_vars) : environ[var] \in {"None", ""}
    \/ ~folders_txt.exists
    \/ \A i \in DOMAIN folders_txt.lines :
          Range(folders_txt.lines[i]) \subseteq Whitespace

PipelineUntouched ==
    /\ DOMAIN fs = {}
    /\ attempts = <<>>
    /\ DOMAIN bucket = {}
    /\ tar_entries = <<>>
    /\ sf_names = <<>>

\* C11: with a required configuration value unset or empty, or folders.txt
\* missing or without a non-blank line, the process exits with a non-zero
\* status before main() runs: no archive, no chunk, no upload attempt.
C11_BadConfigurationExits ==
    BadConfiguration =>
        /\ pc \in {"module", "folders", "exited"}
        /\ PipelineUntouched
        /\ pc = "exited" => exit_status # <<>> /\ exit_status[1] # 0
        /\ pc = "exited" \/ ENABLED NextStart

\* C11 witness: every variable is set and folders.txt exists, but all of its
\* lines are blank, and the process has exited.
C11_Witness ==
    /\ pc = "exited"
    /\ missing_vars(environ) = <<>>
    /\ folders_txt.exists
    /\ Len(folders_txt.lines) >= 2
    /\ exit_status = <<1>>

RECURSIVE DropTrailingSlashes(_)
DropTrailingSlashes(p) ==
    IF Len(p) > 1 /\ p[Len(p)] = "/"
    THEN DropTrailingSlashes(SubSeq(p, 1, Len(p) - 1))
    ELSE p

\* The final segment of a path as the claim means it: the name of the
\* directory, whether or not the path is written with a trailing "/".
FinalSegment(p) == basename(DropTrailingSlashes(p))

RECURSIVE Keep(_, _)
\* The elements of q that are in S, in order.
Keep(q, S) ==
    IF q = <<>> THEN <<>>
    ELSE (IF Head(q) \in S THEN <<Head(q)>> ELSE <<>>) \o Keep(Tail(q), S)

ExistingDirs == Keep(folders_to_backup, existing)

\* C12: for a source list with an existing directory, the archive that
\* create_tarball completes holds exactly the existing directories, in order,
\* each as a root entry named by the final segment of its path; missing
\* directories are skipped.
C12_ArchiveHoldsExistingDirs ==
    (Logged("Tarball created") /\ SomeDirExisting) =>
        /\ Len(tar_entries) = Len(ExistingDirs)
        /\ \A i \in DOMAIN tar_entries :
              /\ tar_entries[i] # <<>>
              /\ tar_entries[i] = FinalSegment(ExistingDirs[i])

\* The stage a position of the run belongs to: 0 START, 1 ARCHIVING,
\* 2 SPLITTING, 3 UPLOADING, 4 an exception on its way to the handler,
\* 5 CLEANUP, 6 DONE (main has returned or ended with an exception).
Rank(p) ==
    CASE p \in {"ct_open", "ct_loop", "ct_return"} -> 1
      [] p \in {"sf_open", "sf_read", "sf_write", "sf_return"} -> 2
      [] p \in {"loop", "uploaded"} -> 3
      [] p = "raised" -> 4
      [] p = "finally" -> 5
      [] p \in {"done", "crashed"} -> 6
      [] OTHER -> 0

ArchivingFailed == Logged("Error creating tarball")

SplittingFailed == Logged("Error splitting file")

\* C13: the stages of a run follow the order ARCHIVING, SPLITTING, UPLOADING,
\* CLEANUP, DONE, none is entered again or skipped on the way up; a failure
\* goes directly to cleanup and from there to the end; after a failed
\* archiving neither split_file nor an upload is ever invoked, after a failed
\* split no upload is.
C13_StagesInOrder ==
    [][ /\ Rank(pc') >= Rank(pc)
        /\ Rank(pc') <= 3 => Rank(pc') <= Rank(pc) + 1
        /\ pc' = "raised" => Rank(pc) \in {1, 2, 3}
        /\ pc = "raised" => pc' = "finally"
        /\ pc' = "finally" => pc \in {"loop", "raised"}
        /\ pc = "finally" => pc' \in {"done", "crashed"}
        /\ ArchivingFailed' =>
              /\ sf_path' = <<>>
              /\ sf_names' = <<>>
              /\ attempts' = <<>>
              /\ Rank(pc') >= 4
        /\ SplittingFailed' =>
              /\ chunk_names' = <<>>
              /\ attempts' = <<>>
              /\ Rank(pc') >= 4
      ]_vars

\* C13 witness: archiving failed, split_file was never called, cleanup ran
\* and main returned.
C13_Witness ==
    /\ Returned
    /\ ArchivingFailed
    /\ sf_path = <<>>
    /\ attempts = <<>>

\* C14: the chunks split_file returned are uploaded one at a time in
\* increasing index order, and none is attempted twice, whether its upload
\* succeeded or failed.
C14_UploadsInIndexOrderOnce ==
    /\ Len(attempts) <= Len(chunk_names)
    /\ \A k \in DOMAIN attempts : attempts[k].name = chunk_names[k]
    /\ \A i, j \in DOMAIN chunk_names : i # j => chunk_names[i] # chunk_names[j]
    /\ \A i, j \in DOMAIN attempts : i # j => attempts[i].name # attempts[j].name
    /\ pc = "loop" => Len(attempts) = idx - 1
    /\ pc = "uploaded" => Len(attempts) = idx

\* C14 witness: three chunks were attempted, the second of them failed, and
\* main returned.
C14_Witness ==
    /\ Returned
    /\ Len(chunk_names) = 3
    /\ Len(attempts) = 3
    /\ attempts[1].ret
    /\ ~attempts[2].ret

DigitValue(c) == CHOOSE d \in 0..9 : DigitChar(d) = c

IsDigit(c) == \E d \in 0..9 : DigitChar(d) = c

RECURSIVE DigitsValue(_)
DigitsValue(ds) ==
    IF ds = <<>> THEN 0
    ELSE 10 * DigitsValue(SubSeq(ds, 1, Len(ds) - 1)) + DigitValue(ds[Len(ds)])

RECURSIVE LexLess(_, _)
\* a sorts before b: names that differ do so at a digit, or one is a prefix
\* of the other.
LexLess(a, b) ==
    IF a = <<>> THEN b # <<>>
    ELSE IF b = <<>> THEN FALSE
    ELSE IF Head(a) = Head(b) THEN LexLess(Tail(a), Tail(b))
    ELSE DigitValue(Head(a)) < DigitValue(Head(b))

\* The index suffix of a chunk name of base: what follows base and ".part".
IndexSuffix(base, name) == SubSeq(name, Len(base) + 2, Len(name))

WellFormedName(base, name, chunk) ==
    /\ Len(name) >= Len(base) + 1 + PadWidth
    /\ SubSeq(name, 1, Len(base)) = base
    /\ name[Len(base) + 1] = ".part"
    /\ \A i \in DOMAIN IndexSuffix(base, name) : IsDigit(IndexSuffix(base, name)[i])
    /\ DigitsValue(IndexSuffix(base, name)) = chunk

\* C15: whatever the number of chunks, a chunk's name is the base name plus
\* the zero-padded index (a function of the two, so the same every time),
\* and the name of each index sorts lexicographically before the name of the
\* next index.
C15_NamesSortInIndexOrder ==
    pc = "named" =>
        /\ WellFormedName(basename(sf_path), sf_names[1], sf_chunk - 1)
        /\ WellFormedName(basename(sf_path), sf_names[2], sf_chunk)
        /\ LexLess(sf_names[1], sf_names[2])

ArchiveRemovals(q) == {i \in DOMAIN q : q[i] = backup_filename}

\* C16: create_tarball, split_file and upload_to_r2 never delete a local
\* file; a step deletes a file only when it is main removing the chunk just
\* uploaded or the finally block removing the archive; the finally block is
\* entered once, main returns only through it, and the archive is removed at
\* most once.
C16_OnlyCleanupRemovesArchive ==
    [][ /\ (DOMAIN fs \ DOMAIN fs') \subseteq
              (CASE pc = "uploaded" -> {chunk_names[idx]}
                 [] pc = "finally" -> {backup_filename}
                 [] OTHER -> {})
        /\ removed' # removed => pc \in {"uploaded", "finally"}
        /\ Cardinality(ArchiveRemovals(removed')) <= 1
        /\ pc' = "finally" => Rank(pc) < Rank(pc')
        /\ Rank(pc) >= 5 => Rank(pc') > Rank(pc)
        /\ pc' = "done" => pc = "finally"
      ]_vars

\* C16 witness: after split_file failed having written a chunk, main returned
\* and the only file ever removed is the archive, once.
C16_Witness ==
    /\ Returned
    /\ SplittingFailed
    /\ sf_names # <<>>
    /\ removed = <<backup_filename>>

\* C17: in a run whose only failures are chunk uploads that fail and source
\* directories that are missing (no I/O error elsewhere), no exception is
\* raised in main(): the run keeps going until main() has returned through
\* the finally block, with a final status logged.
C17_ToleratedFailuresDoNotCrash ==
    faults = {} =>
        /\ pc \notin {"raised", "crashed"}
        /\ ~ExceptionCaught
        /\ Returned \/ ENABLED Next
        /\ Rank(pc) >= 5 => ReportedSuccess \/ ReportedFailure
        /\ Returned => ~FileExists(fs, backup_filename)

\* C17 witness: a missing directory and a failed chunk upload in the same
\* run, and main returned normally.
C17_Witness ==
    /\ Returned
    /\ faults = {}
    /\ SomeDirMissing
    /\ SomeUploadFailed

ChunkRemovalRaised == "remove chunk" \in faults

LoopAbandoned ==
    /\ idx \in DOMAIN chunk_names
    /\ Len(attempts) = idx
    /\ attempts[idx].ret
    /\ FileExists(fs, chunk_names[idx])
    /\ ~ReportedSuccess
    /\ ~ReportedFailure
    /\ pc \in {"raised", "finally", "done", "crashed"}

\* C18 as stated: once the removal of an uploaded chunk has raised and the
\* run is over, no chunk of a higher index was attempted, no final status was
\* logged, and the archive has been removed.
C18_Original ==
    (ChunkRemovalRaised /\ Rank(pc) = 6) =>
        /\ LoopAbandoned
        /\ ~FileExists(fs, backup_filename)

\* C18 amended: once the removal of an uploaded chunk has raised, no chunk of
\* a higher index is attempted and no final status is logged; the exception is
\* caught and the run goes to cleanup, where the archive is removed unless
\* that os.remove raises too: then main ends with the exception and the
\* archive stays. Whenever main returns, the archive has been removed.
C18_ChunkRemovalErrorAbandonsLoop ==
    ChunkRemovalRaised =>
        /\ LoopAbandoned
        /\ Rank(pc) >= 5 => ExceptionCaught
        /\ Returned =>
              /\ ~FileExists(fs, backup_filename)
              /\ backup_filename \in Range(removed)
        /\ pc = "crashed" =>
              /\ "remove archive" \in faults
              /\ FileExists(fs, backup_filename)
        /\ Rank(pc) = 6 \/ ENABLED Next

\* C18 witness: the removal of the first of several chunks raised, the later
\* chunks were never attempted, and main returned with the archive removed.
C18_Witness ==
    /\ Returned
    /\ ChunkRemovalRaised
    /\ Len(attempts) = 1
    /\ Len(chunk_names) >= 2
    /\ backup_filename \in Range(removed)

\* C19: when none of the listed directories exists and nothing else fails,
\* create_tarball still succeeds and writes an archive without entries; the
\* archive is split into at least one chunk, every chunk is attempted, and
\* success is reported exactly when every upload succeeded, in which case
\* the bucket holds the bytes of the archive.
C19_EmptyArchiveIsBackedUp ==
    (faults = {} /\ ~SomeDirExisting) =>
        /\ Rank(pc) >= 2 =>
              /\ LoggedAbout("Tarball created", backup_filename)
              /\ tar_entries = <<>>
              /\ tar_bytes # <<>>
        /\ Returned =>
              /\ ~ExceptionCaught
              /\ Len(chunk_names) >= 1
              /\ AllChunksAttempted
              /\ ReportedSuccess <=> ~SomeUploadFailed
              /\ ReportedFailure <=> SomeUploadFailed
              /\ ReportedSuccess =>
                    Concat(bucket, chunk_names) = tar_bytes

\* C19 witness: a run with no existing directory returned after reporting
\* success for an archive without entries.
C19_Witness ==
    /\ Returned
    /\ faults = {}
    /\ folders_to_backup # <<>>
    /\ ~SomeDirExisting
    /\ tar_entries = <<>>
    /\ ReportedSuccess

====
